---- MODULE Spec2Model ----
(***************************************************************************)
(* Model of rem.py: the memoised Butterworth design (make_sos_filter under *)
(* functools.lru_cache), the zero-phase filters, the band-power, ratio and *)
(* motion pipelines and is_sleeping.                                       *)
(*                                                                         *)
(* Numbers: cutoff frequencies are in tenths of a hertz (0.1 Hz = 1), so   *)
(* the default bands are <<1, 30>> (delta) and <<40, 100>> (theta);        *)
(* sampling rates are in hertz.  A rational that the code holds as a float *)
(* (fs / factor, a time step) is a pair <<numerator, denominator>>.        *)
(* A signal is described by what the stages of the code can observe or     *)
(* decide on: its length, whether all samples are zero, the decimation     *)
(* factor and the filter that produced it.                                 *)
(***************************************************************************)
EXTENDS Integers, Sequences, FiniteSets, TLC

VARIABLES cache, butterCalls, last, memo, pc, local, got

vars == <<cache, butterCalls, last, memo, pc, local, got>>

(***************************************************************************)
(* Program constants                                                       *)
(***************************************************************************)
\* functools.lru_cache used bare: maxsize defaults to 128
LruMaxsize == 128
\* downsample(raw_sig, factor=16)
DefaultFactor == 16
\* bandpass(..., order=4), get_band_power(..., order=4)
DefaultOrder == 4

(***************************************************************************)
(* Bounds of the model                                                     *)
(***************************************************************************)
\* successful designs counted per filter spec before the model stops calling
MaxDesigns == 2

(***************************************************************************)
(* Arithmetic helpers                                                      *)
(***************************************************************************)
RECURSIVE Gcd(_, _)
Gcd(a, b) == IF b = 0 THEN a ELSE Gcd(b, a % b)

\* a float value num/den, kept in lowest terms so equal values are equal pairs
Frac(num, den) == LET g == Gcd(num, den) IN <<num \div g, den \div g>>

CeilDiv(n, q) == (n \div q) + (IF n % q # 0 THEN 1 ELSE 0)

(***************************************************************************)
(* scipy.signal.butter(order, Wn, btype, output='sos', fs)                 *)
(***************************************************************************)
NoSos == [order |-> 0, sections |-> 0, btype |-> "none", wn |-> <<>>]

\* Wn is the sequence of cutoffs (tenths of Hz).  butter normalises them to
\* 2*Wn/fs and raises ValueError unless 0 < Wn < 1; the coefficients depend
\* on the order, the type and the normalised cutoffs only.  A bandpass of
\* order N has 2N poles, hence N second-order sections; a lowpass has
\* ceil(N/2).
butter(order, Wn, btype, fs) ==
    IF \E i \in 1..Len(Wn) : ~(0 < 2 * Wn[i] /\ 2 * Wn[i] < 10 * fs)
    THEN [status |-> "ValueError: butter", sos |-> NoSos]
    ELSE [status |-> "ok",
          sos |-> [order |-> order,
                   sections |-> IF btype = "bandpass" THEN order
                                ELSE CeilDiv(order, 2),
                   btype |-> btype,
                   wn |-> [i \in 1..Len(Wn) |-> Frac(2 * Wn[i], 10 * fs)]]]

(***************************************************************************)
(* functools.lru_cache around make_sos_filter                              *)
(* The cache is the sequence of its entries, least recently used first.    *)
(***************************************************************************)
Key(order, low, high, btype, fs) == <<order, low, high, btype, fs>>

Index(c, k) == {i \in 1..Len(c) : c[i].key = k}

InCache(c, k) == Index(c, k) # {}

\* the specs the cache holds
Keys(c) == {c[i].key : i \in 1..Len(c)}

Remove(c, i) == [j \in 1..(Len(c) - 1) |-> IF j < i THEN c[j] ELSE c[j + 1]]

\* a hit moves the entry to the most recently used end
Touch(c, i) == Append(Remove(c, i), c[i])

\* mutant: the entry is stored before the representation is filled in
StoreStale(c, k, sos) == Append(c, [key |-> k, sos |-> NoSos])

\* mutant: nothing is stored (the decorator is missing)
StoreNothing(c, k, sos) == c

\* a store into a full cache drops the least recently used entry
Store(c, k, sos) ==
    IF Len(c) >= LruMaxsize
    THEN Append(Tail(c), [key |-> k, sos |-> sos])
    ELSE Append(c, [key |-> k, sos |-> sos])

\* mutant: a hit returns the most recently stored representation
LookupNewest(c, i) == c[Len(c)].sos

\* the stored representation a hit returns
Lookup(c, i) == c[i].sos

\* make_sos_filter(order, low, high, btype, fs) run to completion on cache c:
\* the new cache, the status, the representation returned and the specs for
\* which butter did the design work.  An exception is not cached.
make_sos_filter(c, order, low, high, btype, fs) ==
    LET k == Key(order, low, high, btype, fs)
        hit == Index(c, k)
    IN  IF hit # {}
        THEN LET i == CHOOSE i \in hit : TRUE
             IN  [cache |-> Touch(c, i), status |-> "ok",
                  sos |-> Lookup(c, i), designed |-> {}]
        ELSE LET r == butter(order, <<low, high>>, btype, fs)
             IN  IF r.status # "ok"
                 THEN [cache |-> c, status |-> r.status, sos |-> NoSos,
                       designed |-> {}]
                 ELSE [cache |-> Store(c, k, r.sos), status |-> "ok",
                       sos |-> r.sos, designed |-> {k}]

(***************************************************************************)
(* Signals and scipy.signal.sosfiltfilt                                    *)
(***************************************************************************)
\* a raw signal of n samples
Raw(n, zero) ==
    [len |-> n, zero |-> zero, q |-> 1, sos |-> NoSos, stage |-> "raw"]

NoSignal == [len |-> 0, zero |-> TRUE, q |-> 0, sos |-> NoSos, stage |-> "none"]

\* sosfiltfilt pads 3 * ntaps samples at each edge, ntaps = 2*sections + 1
\* less the trailing zero coefficients of a first-order section (a lowpass
\* of odd order has one), and raises ValueError unless the signal is longer.
PadLen(sos) ==
    3 * (2 * sos.sections + 1
         - (IF sos.btype = "lowpass" /\ sos.order % 2 = 1 THEN 1 ELSE 0))

\* the output has the length of the input; a linear filter maps zero to zero
sosfiltfilt(sos, sig) ==
    IF sig.len <= PadLen(sos)
    THEN [status |-> "ValueError: sosfiltfilt", sig |-> NoSignal]
    ELSE [status |-> "ok",
          sig |-> [sig EXCEPT !.sos = sos, !.stage = "filtered"]]

(***************************************************************************)
(* bandpass and lowpass                                                    *)
(***************************************************************************)
Failed(c, status) ==
    [cache |-> c, status |-> status, sig |-> NoSignal, sos |-> NoSos,
     designed |-> {}]

\* filtered = signal.sosfiltfilt(sos, sig), given the outcome m of the design
FilterWith(m, sig) ==
    IF m.status # "ok" THEN Failed(m.cache, m.status)
    ELSE LET f == sosfiltfilt(m.sos, sig)
         IN  [cache |-> m.cache, status |-> f.status, sig |-> f.sig,
              sos |-> m.sos, designed |-> m.designed]

\* bandpass(sig, low, high, fs, order): the design goes through the cache
bandpass(c, sig, low, high, fs, order) ==
    FilterWith(make_sos_filter(c, order, low, high, "bandpass", fs), sig)

\* lowpass(sig, cut, fs, order): butter is called directly, on every call
lowpass(c, sig, cut, fs, order) ==
    LET r == butter(order, <<cut>>, "lowpass", fs)
        f == sosfiltfilt(r.sos, sig)
    IN  IF r.status # "ok" THEN Failed(c, r.status)
        ELSE [cache |-> c, status |-> f.status, sig |-> f.sig,
              sos |-> r.sos,
              designed |-> {Key(order, cut, 0, "lowpass", fs)}]

(***************************************************************************)
(* downsample and get_band_power                                           *)
(***************************************************************************)
\* signal.decimate(raw_sig, factor, ftype='fir'): an FIR low-pass, then every
\* factor-th sample: ceil(n / factor) samples
downsample(raw_sig, factor) ==
    [raw_sig EXCEPT !.len = CeilDiv(raw_sig.len, factor),
                    !.q = raw_sig.q * factor,
                    !.stage = "decimated"]

\* signal.hilbert: the analytic signal, of the same length
hilbert(sig) == [sig EXCEPT !.stage = "analytic"]

\* np.abs(h) ** 2, sample by sample
AbsSquared(sig) == [sig EXCEPT !.stage = "power"]

\* int(fs // factor)
BandRate(fs, factor) == fs \div factor

NoPower(c, status) ==
    [cache |-> c, status |-> status, power |-> NoSignal, rate |-> 0,
     designed |-> {}]

\* h_transf = signal.hilbert(f_sig); power = np.abs(h_transf) ** 2, given
\* the outcome f of bandpass at rate dwn_fs
PowerOf(f, dwn_fs) ==
    IF f.status # "ok"
    THEN [NoPower(f.cache, f.status) EXCEPT !.rate = dwn_fs,
                                            !.designed = f.designed]
    ELSE [cache |-> f.cache, status |-> "ok",
          power |-> AbsSquared(hilbert(f.sig)), rate |-> dwn_fs,
          designed |-> f.designed]

\* get_band_power(raw_sig, low, high, fs, factor, order); rate is the sampling
\* rate handed to bandpass
get_band_power(c, raw_sig, low, high, fs, factor, order) ==
    PowerOf(bandpass(c, downsample(raw_sig, factor), low, high,
                     BandRate(fs, factor), order),
            BandRate(fs, factor))

(***************************************************************************)
(* delta_theta                                                             *)
(***************************************************************************)
\* scipy.stats.zscore: (x - mean) / std over the whole signal; with zero
\* variance that is 0/0 in every sample: NaN, and no exception
zscore(sig) ==
    [len |-> sig.len, nan |-> sig.zero \/ sig.len <= 1, of |-> sig]

NoRatio == [len |-> 0, nan |-> FALSE, theta |-> NoSignal, delta |-> NoSignal]

\* elementwise a / b; numpy raises ValueError on operands it cannot broadcast
Divide(a, b) ==
    IF a.len # b.len /\ a.len # 1 /\ b.len # 1
    THEN [status |-> "ValueError: broadcast", ratio |-> NoRatio]
    ELSE [status |-> "ok",
          ratio |-> [len |-> IF a.len = 1 THEN b.len ELSE a.len,
                     nan |-> a.nan \/ b.nan,
                     theta |-> a.of, delta |-> b.of]]

\* mutant: the delta power is decimated half as much as the theta power
DeltaFactorHalved == DefaultFactor \div 2

\* the decimation factor get_band_power falls back on: delta_theta passes none
ThetaFactor == DefaultFactor
DeltaFactor == DefaultFactor

NoRatioResult(c, status, designed) ==
    [cache |-> c, status |-> status, ratio |-> NoRatio,
     thetaRate |-> 0, deltaRate |-> 0, designed |-> designed]

\* ratio = zscore(theta_power) / zscore(delta_power), given the outcomes of
\* the two get_band_power calls
RatioOf(theta_power, delta_power) ==
    IF delta_power.status # "ok"
    THEN NoRatioResult(delta_power.cache, delta_power.status,
                       theta_power.designed \cup delta_power.designed)
    ELSE LET d == Divide(zscore(theta_power.power),
                         zscore(delta_power.power))
         IN  [cache |-> delta_power.cache, status |-> d.status,
              ratio |-> d.ratio,
              thetaRate |-> theta_power.rate,
              deltaRate |-> delta_power.rate,
              designed |-> theta_power.designed \cup delta_power.designed]

\* delta_power = get_band_power(lfp, low_delta, high_delta, fs), reached only
\* when the theta call returned
DeltaAfter(theta_power, lfp, low_delta, high_delta, fs) ==
    IF theta_power.status # "ok"
    THEN NoRatioResult(theta_power.cache, theta_power.status,
                       theta_power.designed)
    ELSE RatioOf(theta_power,
                 get_band_power(theta_power.cache, lfp, low_delta,
                                high_delta, fs, DeltaFactor, DefaultOrder))

\* delta_theta(lfp, low_delta, high_delta, low_theta, high_theta, fs)
delta_theta(c, lfp, low_delta, high_delta, low_theta, high_theta, fs) ==
    DeltaAfter(get_band_power(c, lfp, low_theta, high_theta, fs,
                              ThetaFactor, DefaultOrder),
               lfp, low_delta, high_delta, fs)

(***************************************************************************)
(* speed                                                                   *)
(***************************************************************************)
\* the factor speed hands to downsample: none, so downsample's default
SpeedFactor(factor) == DefaultFactor

\* np.linspace(0, stop, num): num points from 0 to stop inclusive, so the
\* step is stop / (num - 1); stop is a pair <<numerator, denominator>>
linspace(stop, num) ==
    [len |-> num,
     step |-> IF num > 1 THEN Frac(stop[1], stop[2] * (num - 1)) ELSE <<0, 1>>]

NoMotion == [len |-> 0, zero |-> TRUE, q |-> 0, step |-> <<0, 1>>]

\* np.gradient(motion, t) needs two samples at least, and as many
\* coordinates as samples
gradient(motion, t) ==
    IF motion.len < 2 \/ t.len # motion.len
    THEN [status |-> "ValueError: gradient", motion |-> NoMotion]
    ELSE [status |-> "ok",
          motion |-> [len |-> motion.len, zero |-> motion.zero,
                      q |-> motion.q, step |-> t.step]]

\* speed(acc_sig, factor, fs); rate is dwn_fs = fs / factor
speed(acc_sig, factor, fs) ==
    LET motion == downsample(acc_sig, SpeedFactor(factor))
        dwn_fs == Frac(fs, factor)
        n_pts == motion.len
        end_time == Frac(n_pts * dwn_fs[2], dwn_fs[1])
        t == linspace(end_time, n_pts)
        g == gradient(motion, t)
    IN  [status |-> g.status, motion |-> g.motion, rate |-> dwn_fs,
         used |-> SpeedFactor(factor)]

(***************************************************************************)
(* is_sleeping                                                             *)
(***************************************************************************)
\* mutant: a failure of the motion branch is swallowed and the ratio
\* returned alone
PartialPair(r, m, lfp, acc) ==
    [cache |-> r.cache, status |-> r.status, ratio |-> r.ratio,
     motion |-> m.motion, designed |-> r.designed,
     thetaRate |-> r.thetaRate, deltaRate |-> r.deltaRate,
     motionRate |-> m.rate, lfp |-> lfp, acc |-> acc]

\* what is_sleeping returns or raises, given the outcome r of delta_theta and
\* the outcome m of speed (not run when delta_theta raised); lfp and acc are
\* the caller's arrays as the call leaves them: no stage writes into its input
Pair(r, m, lfp, acc) ==
    IF r.status # "ok" \/ m.status # "ok"
    THEN [cache |-> r.cache,
          status |-> IF r.status # "ok" THEN r.status ELSE m.status,
          ratio |-> NoRatio, motion |-> NoMotion, designed |-> r.designed,
          thetaRate |-> 0, deltaRate |-> 0, motionRate |-> <<0, 1>>,
          lfp |-> lfp, acc |-> acc]
    ELSE [cache |-> r.cache, status |-> "ok", ratio |-> r.ratio,
          motion |-> m.motion, designed |-> r.designed,
          thetaRate |-> r.thetaRate, deltaRate |-> r.deltaRate,
          motionRate |-> m.rate, lfp |-> lfp, acc |-> acc]

\* is_sleeping(lfp, acc, low_delta, high_delta, low_theta, high_theta, fs):
\* no try/except, so the first exception ends the call
is_sleeping(c, lfp, acc, low_delta, high_delta, low_theta, high_theta, fs) ==
    Pair(delta_theta(c, lfp, low_delta, high_delta, low_theta, high_theta,
                     fs),
         speed(acc, DefaultFactor, fs), lfp, acc)

(***************************************************************************)
(* Inputs of the model                                                     *)
(***************************************************************************)
DeltaBand == <<1, 30>>
ThetaBand == <<40, 100>>
Bands == {DeltaBand, ThetaBand}

\* the cache filled by earlier bandpass calls at LruMaxsize - 1 other rates
FillerRate(i) == 1249 + i
FillerKey(i) ==
    Key(DefaultOrder, ThetaBand[1], ThetaBand[2], "bandpass", FillerRate(i))
Fillers == 1..(LruMaxsize - 1)
WarmCache ==
    [i \in Fillers |->
        [key |-> FillerKey(i),
         sos |-> butter(DefaultOrder, ThetaBand, "bandpass",
                        FillerRate(i)).sos]]

\* direct calls of bandpass and lowpass: rates and signal lengths on both
\* sides of the Nyquist and padding limits
DesignRates == {18, FillerRate(1)}
DesignSignals == {Raw(27, FALSE), Raw(28, FALSE)}
LowpassSignals == {Raw(28, FALSE)}
LowpassOrders == {DefaultOrder}
LowpassCut == <<100>>

\* the pipelines: raw signals shorter and longer than what the order-4
\* bandpass needs after decimation by 16, an all-zero recording, raw rates
\* that are not multiples of 16 (one too low for the theta band), and for
\* speed the default rate as well
LfpSignals == {Raw(432, FALSE), Raw(433, FALSE), Raw(433, TRUE)}
AccSignals == {Raw(16, FALSE), Raw(433, FALSE)}
RawRates == {300, 1000}
SpeedRates == {1000, 20000}
Factors == {8, DefaultFactor}

\* every filter spec the calls of the model can ask for
AllSpecs ==
    {Key(DefaultOrder, b[1], b[2], "bandpass", r) :
        b \in Bands,
        r \in DesignRates \cup {fs \div f : fs \in RawRates, f \in Factors}}
    \cup {Key(o, LowpassCut[1], 0, "lowpass", r) :
            o \in LowpassOrders, r \in DesignRates}

Threads == {1, 2}

(***************************************************************************)
(* State                                                                   *)
(*   cache        the lru_cache of make_sos_filter, least recent first     *)
(*   butterCalls  per filter spec, the designs butter has completed        *)
(*   last         the latest call: its arguments and what it returned      *)
(*   memo         one earlier call, kept to compare a repeated call with   *)
(*   pc, local, got   the threads calling make_sos_filter concurrently     *)
(***************************************************************************)
None == [op |-> "none"]

Idle == [t \in Threads |-> "idle"]
NoLocal == [t \in Threads |-> [key |-> <<>>, sos |-> NoSos, todo |-> <<>>]]
NoGot == [t \in Threads |-> <<>>]

Init ==
    /\ cache = <<>>
    /\ butterCalls = [k \in AllSpecs |-> 0]
    /\ last = None
    /\ memo = None
    /\ pc = Idle
    /\ local = NoLocal
    /\ got = NoGot

\* the process after bandpass has been called at LruMaxsize - 1 rates;
\* butterCalls counts for the specs the calls of the model can ask for
InitWarm ==
    /\ cache = WarmCache
    /\ butterCalls =
         [k \in AllSpecs |->
            IF k \in {FillerKey(i) : i \in Fillers} THEN 1 ELSE 0]
    /\ last = None
    /\ memo = None
    /\ pc = Idle
    /\ local = NoLocal
    /\ got = NoGot

CanDesign(designed) == \A k \in designed : butterCalls[k] < MaxDesigns

Counted(designed) ==
    [k \in AllSpecs |-> butterCalls[k] + (IF k \in designed THEN 1 ELSE 0)]

(***************************************************************************)
(* Calls of bandpass and lowpass                                           *)
(***************************************************************************)
Bandpass ==
    \E sig \in DesignSignals, b \in Bands, fs \in DesignRates :
        \E r \in {bandpass(cache, sig, b[1], b[2], fs, DefaultOrder)} :
        LET call == [op |-> "bandpass",
                     args |-> <<sig, b[1], b[2], fs, DefaultOrder>>,
                     key |-> Key(DefaultOrder, b[1], b[2], "bandpass", fs),
                     status |-> r.status, sos |-> r.sos, sig |-> r.sig,
                     designed |-> r.designed]
        IN  /\ CanDesign(r.designed)
            /\ cache' = r.cache
            /\ butterCalls' = Counted(r.designed)
            /\ last' = call
            /\ memo' \in {memo, call}
            /\ UNCHANGED <<pc, local, got>>

Lowpass ==
    \E sig \in LowpassSignals, fs \in DesignRates, order \in LowpassOrders :
        \E r \in {lowpass(cache, sig, LowpassCut[1], fs, order)} :
        LET call == [op |-> "lowpass",
                     args |-> <<sig, LowpassCut[1], 0, fs, order>>,
                     key |-> Key(order, LowpassCut[1], 0, "lowpass", fs),
                     status |-> r.status, sos |-> r.sos, sig |-> r.sig,
                     designed |-> r.designed]
        IN  /\ CanDesign(r.designed)
            /\ cache' = r.cache
            /\ butterCalls' = Counted(r.designed)
            /\ last' = call
            /\ memo' \in {memo, call}
            /\ UNCHANGED <<pc, local, got>>

NextDesign == Bandpass \/ Lowpass

SpecDesign == Init /\ [][NextDesign]_vars

SpecWarm == InitWarm /\ [][NextDesign]_vars

(***************************************************************************)
(* Calls of the pipelines                                                  *)
(***************************************************************************)
GetBandPower ==
    \E factor \in Factors :
    \E raw \in {Raw(433, FALSE)}, fs \in RawRates \cap SpeedRates :
    \E r \in {get_band_power(cache, raw, ThetaBand[1], ThetaBand[2], fs,
                             factor, DefaultOrder)} :
            /\ CanDesign(r.designed)
            /\ cache' = r.cache
            /\ butterCalls' = Counted(r.designed)
            /\ last' = [op |-> "get_band_power", raw |-> raw, fs |-> fs,
                        factor |-> factor, status |-> r.status,
                        power |-> r.power, rate |-> r.rate,
                        designed |-> r.designed]
            /\ UNCHANGED <<memo, pc, local, got>>

DeltaTheta ==
    \E lfp \in LfpSignals, fs \in RawRates :
        \E r \in {delta_theta(cache, lfp, DeltaBand[1], DeltaBand[2],
                              ThetaBand[1], ThetaBand[2], fs)} :
            /\ CanDesign(r.designed)
            /\ cache' = r.cache
            /\ butterCalls' = Counted(r.designed)
            /\ last' = [op |-> "delta_theta", lfp |-> lfp, fs |-> fs,
                        status |-> r.status, ratio |-> r.ratio,
                        thetaRate |-> r.thetaRate, deltaRate |-> r.deltaRate,
                        designed |-> r.designed]
            /\ UNCHANGED <<memo, pc, local, got>>

Speed ==
    \E acc \in AccSignals, factor \in Factors, fs \in SpeedRates :
        \E r \in {speed(acc, factor, fs)} :
            /\ last' = [op |-> "speed", acc |-> acc, factor |-> factor,
                        fs |-> fs, status |-> r.status, motion |-> r.motion,
                        rate |-> r.rate, used |-> r.used]
            /\ UNCHANGED <<cache, butterCalls, memo, pc, local, got>>

IsSleeping ==
    \E lfp \in LfpSignals, acc \in AccSignals, fs \in RawRates :
        \E r \in {is_sleeping(cache, lfp, acc, DeltaBand[1], DeltaBand[2],
                              ThetaBand[1], ThetaBand[2], fs)} :
        LET call == [op |-> "is_sleeping", lfp |-> lfp, acc |-> acc,
                     fs |-> fs, status |-> r.status, ratio |-> r.ratio,
                     motion |-> r.motion, thetaRate |-> r.thetaRate,
                     deltaRate |-> r.deltaRate, motionRate |-> r.motionRate,
                     lfpAfter |-> r.lfp, accAfter |-> r.acc,
                     designed |-> r.designed]
        IN  /\ CanDesign(r.designed)
            /\ cache' = r.cache
            /\ butterCalls' = Counted(r.designed)
            /\ last' = call
            /\ memo' \in {memo, call}
            /\ UNCHANGED <<pc, local, got>>

NextPipeline == GetBandPower \/ DeltaTheta \/ Speed \/ IsSleeping

SpecPipeline == Init /\ [][NextPipeline]_vars

(***************************************************************************)
(* Concurrent callers of make_sos_filter                                   *)
(* Each thread runs the ratio branch of is_sleeping: the theta design,     *)
(* then the delta design (the motion branch touches no shared state).  A   *)
(* call through lru_cache is three steps, each atomic under the            *)
(* interpreter lock: the lookup; on a miss the call of butter, during      *)
(* which other threads run; and the store, which first looks whether       *)
(* another thread stored the key meanwhile.                                *)
(***************************************************************************)
ConcRates == {300, 1000, 20000}

KeyOf(band, fs) ==
    Key(DefaultOrder, band[1], band[2], "bandpass",
        BandRate(fs, DefaultFactor))

\* mutant: the store does not look for the key first
StoreAlways(c, k, sos) == Store(c, k, sos)

\* the store after the call: nothing to do when the key is there already
StoreIfAbsent(c, k, sos) == IF InCache(c, k) THEN c ELSE Store(c, k, sos)

\* the thread goes on to its next design, or is done
Advance(t, entry) ==
    /\ got' = [got EXCEPT ![t] = Append(@, entry)]
    /\ local' = [local EXCEPT ![t].todo = Tail(@)]
    /\ pc' = [pc EXCEPT ![t] =
                IF Tail(local[t].todo) = <<>> THEN "done" ELSE "lookup"]

Begin(t) ==
    /\ pc[t] = "idle"
    /\ \E fs \in ConcRates :
          local' = [local EXCEPT ![t] =
                      [key |-> <<>>, sos |-> NoSos,
                       todo |-> <<KeyOf(ThetaBand, fs),
                                  KeyOf(DeltaBand, fs)>>]]
    /\ got' = [got EXCEPT ![t] = <<>>]
    /\ pc' = [pc EXCEPT ![t] = "lookup"]
    /\ UNCHANGED <<cache, butterCalls, last, memo>>

LookupStep(t) ==
    /\ pc[t] = "lookup"
    /\ LET k == Head(local[t].todo)
       IN  IF InCache(cache, k)
           THEN \E i \in Index(cache, k) :
                  /\ cache' = Touch(cache, i)
                  /\ Advance(t, [key |-> k, status |-> "ok",
                                 sos |-> Lookup(cache, i)])
           ELSE /\ pc' = [pc EXCEPT ![t] = "call"]
                /\ local' = [local EXCEPT ![t].key = k]
                /\ UNCHANGED <<cache, got>>
    /\ UNCHANGED <<butterCalls, last, memo>>

CallStep(t) ==
    /\ pc[t] = "call"
    /\ LET k == local[t].key
           r == butter(k[1], <<k[2], k[3]>>, k[4], k[5])
       IN  IF r.status # "ok"
           THEN /\ got' = [got EXCEPT ![t] =
                            Append(@, [key |-> k, status |-> r.status,
                                       sos |-> NoSos])]
                /\ local' = [local EXCEPT ![t].todo = <<>>]
                /\ pc' = [pc EXCEPT ![t] = "done"]
                /\ UNCHANGED butterCalls
           ELSE /\ CanDesign({k})
                /\ butterCalls' = Counted({k})
                /\ local' = [local EXCEPT ![t].sos = r.sos]
                /\ pc' = [pc EXCEPT ![t] = "store"]
                /\ UNCHANGED got
    /\ UNCHANGED <<cache, last, memo>>

StoreStep(t) ==
    /\ pc[t] = "store"
    /\ cache' = StoreIfAbsent(cache, local[t].key, local[t].sos)
    /\ Advance(t, [key |-> local[t].key, status |-> "ok",
                   sos |-> local[t].sos])
    /\ UNCHANGED <<butterCalls, last, memo>>

Return(t) ==
    /\ pc[t] = "done"
    /\ pc' = [pc EXCEPT ![t] = "idle"]
    /\ local' = [local EXCEPT ![t] = NoLocal[t]]
    /\ UNCHANGED <<cache, butterCalls, last, memo, got>>

NextConc ==
    \E t \in Threads :
        Begin(t) \/ LookupStep(t) \/ CallStep(t) \/ StoreStep(t) \/ Return(t)

\* the threads start in a fresh process, or in one whose cache holds
\* LruMaxsize - 1 entries
InitConc == Init \/ InitWarm

SpecConc == InitConc /\ [][NextConc]_vars

(***************************************************************************)
(* Properties of the filter design                                         *)
(***************************************************************************)
\* C1: two design calls (bandpass or lowpass) with equal (order, cutoffs,
\* type, sampling rate), whatever calls with other specs lie between them,
\* return equal representations, and filtering the same signal with either
\* gives the same output.
CacheCorrect ==
    (memo.op # "none" /\ last.op = memo.op /\ last.key = memo.key) =>
        /\ last.sos = memo.sos
        /\ (last.args = memo.args =>
                last.status = memo.status /\ last.sig = memo.sig)

\* a bandpass call that designed its filter, calls with other specs, and the
\* same call again, served from the cache
CacheCorrectWitness ==
    /\ memo.op = "bandpass" /\ last.op = "bandpass"
    /\ last.args = memo.args
    /\ memo.designed = {memo.key} /\ last.designed = {}
    /\ last.status = "ok" /\ last.sig.stage = "filtered"
    /\ Len(cache) >= 3

DegenerateRejected ==
    (last.op = "delta_theta" /\ last.status = "ok") =>
        /\ ~last.ratio.nan
        /\ ~last.ratio.theta.zero
        /\ ~last.ratio.delta.zero

\* C4: speed decimates the accelerometer signal by the caller's factor: the
\* factor that subsamples is the factor of the decimated rate, and the
\* output has the decimated length for that factor.
SpeedUsesFactor ==
    last.op = "speed" =>
        /\ last.used = last.factor
        /\ last.status = "ok" =>
              last.motion.len = CeilDiv(last.acc.len, last.factor)

\* C5: in speed the time axis has the length of the decimated signal and its
\* points are spaced exactly 1 / dwn_fs = factor / fs apart.
TimeAxisSpacing ==
    (last.op = "speed" /\ last.status = "ok") =>
        /\ last.motion.len = CeilDiv(last.acc.len, last.used)
        /\ last.motion.step = Frac(last.factor, last.fs)

\* the outcome of is_sleeping against the outcomes r and m of its branches
BranchesDecide(call, r, m) ==
    /\ call.status = "ok" <=> (r.status = "ok" /\ m.status = "ok")
    /\ call.status = "ok" =>
          call.ratio = r.ratio /\ call.motion = m.motion
    /\ call.status # "ok" =>
          /\ call.ratio = NoRatio /\ call.motion = NoMotion
          /\ call.status = IF r.status # "ok" THEN r.status ELSE m.status

\* C6: is_sleeping catches nothing: when the ratio branch or the motion
\* branch fails the call fails with that failure and returns no pair, not
\* even a partial one; it returns a pair only when both branches succeeded.
NoPartialResult ==
    last.op = "is_sleeping" =>
        BranchesDecide(last,
                       delta_theta(<<>>, last.lfp, DeltaBand[1], DeltaBand[2],
                                   ThetaBand[1], ThetaBand[2], last.fs),
                       speed(last.acc, DefaultFactor, last.fs))

\* the ratio branch succeeded and the motion branch raised
NoPartialResultWitness ==
    /\ last.op = "is_sleeping"
    /\ last.status = "ValueError: gradient"
    /\ last.lfp.len = 433 /\ last.acc.len = 16

\* C7: calling is_sleeping twice on the same input arrays gives identical
\* outputs, whatever the filter cache holds at either call, and leaves the
\* input arrays as they were.
Idempotent ==
    /\ (memo.op = "is_sleeping" /\ last.op = "is_sleeping"
        /\ last.lfp = memo.lfp /\ last.acc = memo.acc /\ last.fs = memo.fs)
        => /\ last.status = memo.status
           /\ last.ratio = memo.ratio
           /\ last.motion = memo.motion
    /\ last.op = "is_sleeping" =>
          last.lfpAfter = last.lfp /\ last.accAfter = last.acc

\* the first call designed both filters, the second found both in the cache
IdempotentWitness ==
    /\ memo.op = "is_sleeping" /\ last.op = "is_sleeping"
    /\ last.lfp = memo.lfp /\ last.acc = memo.acc /\ last.fs = memo.fs
    /\ Cardinality(memo.designed) = 2 /\ last.designed = {}
    /\ last.status = "ok"

\* C9: the rate propagated after decimation is exactly fs / factor: the rate
\* at which the power pipeline designs its bandpass equals fs / factor and
\* equals the rate the motion pipeline builds its time axis from.
RatePropagated ==
    /\ last.op = "get_band_power" =>
          <<last.rate, 1>> = Frac(last.fs, last.factor)
    /\ (last.op = "is_sleeping" /\ last.status = "ok") =>
          /\ <<last.thetaRate, 1>> = last.motionRate
          /\ <<last.deltaRate, 1>> = last.motionRate

\* C10: in delta_theta the theta and the delta power come from the same lfp
\* with the same decimation factor and raw rate, so both have the decimated
\* length of lfp and so has their quotient; with lfp and acc of equal length
\* the ratio and the motion returned by is_sleeping have equal length.
EqualLengths ==
    /\ last.op \in {"delta_theta", "is_sleeping"} =>
          last.status # "ValueError: broadcast"
    /\ (last.op = "delta_theta" /\ last.status = "ok") =>
          /\ last.ratio.theta.len = CeilDiv(last.lfp.len, DefaultFactor)
          /\ last.ratio.delta.len = last.ratio.theta.len
          /\ last.ratio.len = last.ratio.theta.len
          /\ last.ratio.theta.q = last.ratio.delta.q
          /\ last.thetaRate = last.deltaRate
    /\ (last.op = "is_sleeping" /\ last.status = "ok"
        /\ last.lfp.len = last.acc.len) =>
          last.ratio.len = last.motion.len

\* is_sleeping returned a pair for an lfp and an acc of 433 samples each
EqualLengthsWitness ==
    /\ last.op = "is_sleeping" /\ last.status = "ok"
    /\ last.lfp.len = 433 /\ last.acc.len = 433
    /\ last.ratio.len = 28 /\ last.motion.len = 28

(***************************************************************************)
(* Properties of concurrent callers                                        *)
(***************************************************************************)
\* every representation a thread has obtained is the one butter designs for
\* the key, which is what the thread gets when it runs alone
SameAsAlone ==
    \A t \in Threads : \A i \in 1..Len(got[t]) :
        LET k == got[t][i].key
            r == butter(k[1], <<k[2], k[3]>>, k[4], k[5])
        IN  got[t][i].status = r.status /\ got[t][i].sos = r.sos

\* the cache holds one entry per filter spec at most
OneEntryPerSpec == Cardinality(Keys(cache)) = Len(cache)

====
